---- MODULE Spec2Model ----
(***************************************************************************)
(* Playback / playlist controller of MusicPlayerWindow (src/main.py).      *)
(*                                                                         *)
(* The state is the window's playlist fields, the two checkable mode       *)
(* buttons, the seek slider and its labels, and the QMediaPlayer the       *)
(* window drives (source, playback state, position, duration).  Every Qt  *)
(* slot of the window is one action.  The player is the environment: its   *)
(* position and duration change only when it emits positionChanged and     *)
(* durationChanged, and the step that changes them runs the connected slot.*)
(* The commands a slot issues act on the player's source and playback      *)
(* state at once; what they do to position and duration arrives later, as  *)
(* those signals.  Cover art, theme and list selection are not modelled.   *)
(***************************************************************************)
EXTENDS Integers, Sequences, FiniteSets, TLC

\* ------------------------------------------------------------------ bounds
\* Number of distinct audio files the browsed directories draw from.
NumTracks == 3

\* --------------------------------------------------------- program constants
\* seek_slider.setRange(0, 1000)
SeekMin == 0
SeekMax == 1000

\* ------------------------------------------------------------------ inputs
\* The paths of the audio files, numbered in name order.
Tracks == 1..NumTracks
\* QUrl() of a player that has no source yet (isLocalFile() is False)
NoSource == 0
\* Data of the list's placeholder item "(no supported audio files found)".
NoData == 0
\* All the files in name order, as sorted(path.iterdir()) lists them.
AllFiles == [i \in Tracks |-> i]
\* A directory listing: the supported files present when the directory is
\* loaded, in name order.  The listings checked are the tails of AllFiles,
\* the empty one included, so a path's index differs between listings.
Directories == {SubSeq(AllFiles, k, NumTracks) : k \in 1..(NumTracks + 1)}
\* Durations the engine may report (ms): 0 and -1 are "unknown".
Durations == {-1, 0, 1500}
\* Positions the engine may report (ms): the start, one within 200 ms of the
\* end of a 1500 ms track, and one past every duration.
Positions == {0, 1400, 2000}
\* Slider values a drag may move the handle to.
DragValues == {1, 290}
\* Values handed to on_volume_changed: vol_slider (range 0..100, initially
\* 70) delivers 0..100 only; the others reach the slot by a direct call.
VolumeValues == {-5, 70, 150}
\* Indices handed to play_at_index by a direct call.
Indices == (-1)..NumTracks

VARIABLES
    current_playlist,   \* self.current_playlist: sequence of paths
    song_list,          \* self.song_list: the Qt.UserRole data of each item
    current_index,      \* self.current_index
    is_seeking,         \* self.is_seeking
    shuffle_checked,    \* self.shuffle_btn.isChecked()
    repeat_checked,     \* self.repeat_btn.isChecked()
    source,             \* self.player.source()
    playbackState,      \* self.player.playbackState()
    position,           \* self.player.position()
    duration,           \* self.player.duration()
    seek_value,         \* self.seek_slider.value()
    time_label,         \* self.time_label text
    duration_label,     \* self.duration_label text
    play_icon,          \* icon of self.play_btn
    cmds,               \* commands the last slot issued to the player, in order
    msg,                \* status-bar message the last slot showed ("" if none)
    raised,             \* exception the last slot let escape ("" if it returned)
    last                \* the last slot run and its argument

vars == <<current_playlist, song_list, current_index, is_seeking, shuffle_checked,
          repeat_checked, source, playbackState, position, duration,
          seek_value, time_label, duration_label, play_icon, cmds, msg, raised, last>>

\* ---------------------------------------------------------- pure functions
Min(a, b) == IF a < b THEN a ELSE b
Max(a, b) == IF a > b THEN a ELSE b

\* floor(log2(n / d)) for n, d > 0
RECURSIVE Log2Up(_, _, _)
Log2Up(n, d, j) == IF 2 * d <= n THEN Log2Up(n, 2 * d, j + 1) ELSE j
RECURSIVE Log2Down(_, _, _)
Log2Down(n, d, j) == IF n < d THEN Log2Down(2 * n, d, j - 1) ELSE j
FloorLog2(n, d) == IF n >= d THEN Log2Up(n, d, 0) ELSE Log2Down(n, d, 0)

RECURSIVE Pow2(_)
Pow2(k) == IF k = 0 THEN 1 ELSE 2 * Pow2(k - 1)

\* (r * 2^k) mod b
RECURSIVE ShiftMod(_, _, _)
ShiftMod(r, k, b) == IF k = 0 THEN r % b ELSE ShiftMod((2 * r) % b, k - 1, b)

\* Whether the double product (a / b) * c falls just below the whole number
\* a*c/b.  a / b is rounded to a 53-bit significand; rem is what the rounding
\* dropped (in units of 1/(b * 2^(52-j))).  The product is a*c/b - rem*c/(...)
\* and rounds down to the double below a*c/b when that error exceeds half the
\* gap below a*c/b (the gap is halved when a*c/b is a power of two).
ProductFallsShort(a, b, c) ==
    LET Q == (a * c) \div b
        j == FloorLog2(a, b)
        rem == ShiftMod(a % b, 52 - j, b)
        m == FloorLog2(Q, 1)
        half == IF Q = Pow2(m) THEN 4 ELSE 2
    IN  /\ rem # 0
        /\ 2 * rem < b
        /\ rem * c * half > b * Pow2(m - j)

\* int((a / b) * c) of Python for integers a >= 0, b > 0, c >= 0: true
\* division and product in IEEE doubles, then truncation toward zero.
TruncMulDiv(a, b, c) ==
    LET Q == (a * c) \div b
    IN  IF (a * c) % b # 0 \/ Q = 0 THEN Q
        ELSE IF ProductFallsShort(a, b, c) THEN Q - 1 ELSE Q

\* format_ms: the label text, as minutes and seconds; Dashes is "--:--".
Dashes == [m |-> -1, s |-> -1]
format_ms(ms) ==
    IF ms < 0 THEN Dashes
    ELSE LET s == ms \div 1000 IN [m |-> s \div 60, s |-> s % 60]

\* Mutant: the value is stored as given, whatever the slider's range.
SliderSetValue_Unbounded(v) == v

\* QSlider.setValue: the value is bounded to the slider's range.
SliderSetValue(v) == Max(SeekMin, Min(SeekMax, v))

\* Mutant: the test of isLocalFile comes out the wrong way round.
isLocalFile_Inverted(url) == url = NoSource

\* QUrl.isLocalFile of the player's source: the sources set are all
\* QUrl.fromLocalFile(path); only the initial empty QUrl is not a local file.
isLocalFile(url) == url # NoSource

\* ------------------------------------------------------------- navigation
\* play_at_index's guard: the index names no entry of a playlist of n tracks
IndexRejected(idx, n) == idx < 0 \/ idx >= n

\* Mutant: Previous stops at the first track whatever the repeat button says.
PrevIndex_Clamp(cur, n, repeat) ==
    LET new_idx == cur - 1
    IN  IF new_idx < 0 THEN 0 ELSE new_idx

\* Mutant: Previous picks like Next when the shuffle button is checked
\* (the pick shown is the mirrored index).
PrevIndex_Shuffled(cur, n, repeat) ==
    LET new_idx == cur - 1
    IN  IF shuffle_checked THEN n - 1 - cur
        ELSE IF new_idx < 0 THEN (IF repeat THEN n - 1 ELSE 0) ELSE new_idx

\* prev_track's new_idx (the shuffle button is not read)
PrevIndex(cur, n, repeat) ==
    LET new_idx == cur - 1
    IN  IF new_idx < 0 THEN (IF repeat THEN n - 1 ELSE 0) ELSE new_idx

\* Mutant: a pick that is never the first track (randrange(1, n + 1)).
randrange_FromOne(n) == 1..n

\* random.randrange(n): the values it can return
randrange(n) == 0..(n - 1)

\* Mutant: Next always wraps, whatever the repeat button says.
NextOrdinal_Wrap(cur, n, repeat) == (cur + 1) % n

\* next_track's ordinal new_idx (shuffle button unchecked)
NextOrdinal(cur, n, repeat) ==
    LET new_idx == cur + 1
    IN  IF new_idx >= n THEN (IF repeat THEN 0 ELSE n - 1) ELSE new_idx

\* next_track's new_idx: every value it can take
NextIndices(cur, n, shuffle, repeat) ==
    IF shuffle THEN randrange(n) ELSE {NextOrdinal(cur, n, repeat)}

\* --------------------------------------------------------------- seek math
\* int((pos / duration) * 1000) handed to seek_slider.setValue
SliderFromPosition(pos, dur) == SliderSetValue(TruncMulDiv(pos, dur, SeekMax))

\* Mutant: the seek target rounded to the nearest millisecond (ties up)
\* instead of truncated.
MsFromSlider_Rounded(value, dur) == (2 * value * dur + SeekMax) \div (2 * SeekMax)

\* int((value / 1000) * duration): the time shown while dragging and the
\* target of the seek on release
MsFromSlider(value, dur) == TruncMulDiv(value, SeekMax, dur)

\* ------------------------------------------------------------------- state
Cmd(c, a) == [c |-> c, a |-> a]
\* the slot run, its argument, and current_index as the slot found it
Op(o, a) == [op |-> o, arg |-> a, from |-> current_index]

\* on_playback_state_changed: the play button shows Pause while playing.
play_btn_icon(state) ==
    IF state = "Playing" THEN "SP_MediaPause" ELSE "SP_MediaPlay"

Init ==
    /\ current_playlist = <<>>
    /\ song_list = <<>>
    /\ current_index = -1
    /\ is_seeking = FALSE
    /\ shuffle_checked = FALSE
    /\ repeat_checked = FALSE
    /\ source = NoSource
    /\ playbackState = "Stopped"
    /\ position = 0
    /\ duration = 0
    /\ seek_value = SeekMin
    /\ time_label = format_ms(0)
    /\ duration_label = format_ms(0)
    /\ play_icon = "SP_MediaPlay"
    /\ cmds = <<>>
    /\ msg = ""
    /\ raised = ""
    /\ last = [op |-> "init", arg |-> 0, from |-> -1]

\* The variables no playlist or playback slot touches.
seekUI == <<is_seeking, seek_value, time_label, duration_label>>
flags == <<shuffle_checked, repeat_checked>>
engineClock == <<position, duration>>

\* Mutant: a non-empty listing replaces the playlist but current_index is
\* not reset.
load_directory_KeepIndex(files) ==
    /\ IF files = <<>>
       THEN /\ song_list' = <<NoData>>
            /\ current_playlist' = <<>>
            /\ current_index' = -1
            /\ msg' = "No audio files found in the folder."
       ELSE /\ song_list' = files
            /\ current_playlist' = files
            /\ current_index' = current_index
            /\ msg' = "Loaded tracks."
    /\ raised' = ""
    /\ cmds' = <<>>
    /\ last' = Op("load_directory", 0)
    /\ UNCHANGED <<source, playbackState, play_icon, seekUI, flags, engineClock>>

\* Mutant: the first track of a non-empty listing is played at once.
load_directory_Autoplay(files) ==
    /\ IF files = <<>>
       THEN /\ song_list' = <<NoData>>
            /\ current_playlist' = <<>>
            /\ current_index' = -1
            /\ msg' = "No audio files found in the folder."
            /\ cmds' = <<>>
            /\ UNCHANGED <<source, playbackState, play_icon>>
       ELSE /\ song_list' = files
            /\ current_playlist' = files
            /\ current_index' = 0
            /\ msg' = "Playing"
            /\ source' = files[1]
            /\ playbackState' = "Playing"
            /\ play_icon' = play_btn_icon("Playing")
            /\ cmds' = <<Cmd("setSource", files[1]), Cmd("play", 0)>>
    /\ raised' = ""
    /\ last' = Op("load_directory", 0)
    /\ UNCHANGED <<seekUI, flags, engineClock>>

\* Mutant: loading a directory unloads the player's source.
load_directory_Unloads(files) ==
    /\ IF files = <<>>
       THEN /\ song_list' = <<NoData>>
            /\ current_playlist' = <<>>
            /\ current_index' = -1
            /\ msg' = "No audio files found in the folder."
       ELSE /\ song_list' = files
            /\ current_playlist' = files
            /\ current_index' = 0
            /\ msg' = "Loaded tracks."
    /\ source' = NoSource
    /\ raised' = ""
    /\ cmds' = <<>>
    /\ last' = Op("load_directory", 0)
    /\ UNCHANGED <<playbackState, play_icon, seekUI, flags, engineClock>>

\* load_directory(path), files being the directory's supported audio files
load_directory(files) ==
    /\ IF files = <<>>
       THEN /\ song_list' = <<NoData>>
            /\ current_playlist' = <<>>
            /\ current_index' = -1
            /\ msg' = "No audio files found in the folder."
            /\ raised' = ""
       ELSE /\ song_list' = files
            /\ current_playlist' = files
            /\ current_index' = 0
            /\ msg' = "Loaded tracks."
            /\ raised' = ""
    /\ cmds' = <<>>
    /\ last' = Op("load_directory", 0)
    /\ UNCHANGED <<source, playbackState, play_icon, seekUI, flags, engineClock>>

\* Mutant: play() is issued before the new source is set.
play_at_index_PlayFirst(idx) ==
    IF IndexRejected(idx, Len(current_playlist))
    THEN /\ cmds' = <<>>
         /\ msg' = ""
         /\ raised' = ""
         /\ UNCHANGED <<current_index, source, playbackState, play_icon>>
    ELSE /\ current_index' = idx
         /\ source' = current_playlist[idx + 1]
         /\ playbackState' = "Stopped"
         /\ play_icon' = play_btn_icon("Stopped")
         /\ cmds' = <<Cmd("play", 0), Cmd("setSource", current_playlist[idx + 1])>>
         /\ msg' = "Playing"
         /\ raised' = ""

\* Mutant: current_index is assigned before the range check.
play_at_index_AssignFirst(idx) ==
    IF IndexRejected(idx, Len(current_playlist))
    THEN /\ current_index' = idx
         /\ cmds' = <<>>
         /\ msg' = ""
         /\ raised' = ""
         /\ UNCHANGED <<source, playbackState, play_icon>>
    ELSE /\ current_index' = idx
         /\ source' = current_playlist[idx + 1]
         /\ playbackState' = "Playing"
         /\ play_icon' = play_btn_icon("Playing")
         /\ cmds' = <<Cmd("setSource", current_playlist[idx + 1]), Cmd("play", 0)>>
         /\ msg' = "Playing"
         /\ raised' = ""

\* play_at_index(idx): everything but the record of which slot ran.
\* setSource stops the player and play() starts it, so the state the
\* playbackStateChanged signal leaves on the button is Playing.
play_at_index(idx) ==
    IF IndexRejected(idx, Len(current_playlist))
    THEN /\ cmds' = <<>>
         /\ msg' = ""
         /\ raised' = ""
         /\ UNCHANGED <<current_index, source, playbackState, play_icon>>
    ELSE /\ current_index' = idx
         /\ source' = current_playlist[idx + 1]
         /\ playbackState' = "Playing"
         /\ play_icon' = play_btn_icon("Playing")
         /\ cmds' = <<Cmd("setSource", current_playlist[idx + 1]), Cmd("play", 0)>>
         /\ msg' = "Playing"
         /\ raised' = ""

\* A direct call of play_at_index with any index.
PlayAtIndex(idx) ==
    /\ play_at_index(idx)
    /\ last' = Op("play_at_index", idx)
    /\ UNCHANGED <<current_playlist, song_list, seekUI, flags, engineClock>>

\* on_song_clicked(item), item being the clicked row of the list.  The
\* placeholder item carries no path; list.index finds the first entry equal
\* to the path, and a path that is not in the playlist is ignored.
on_song_clicked(row) ==
    /\ row \in 1..Len(song_list)
    /\ LET path == song_list[row]
           hits == {i \in 1..Len(current_playlist) : current_playlist[i] = path}
       IN  IF path = NoData \/ hits = {}
           THEN /\ cmds' = <<>>
                /\ msg' = ""
                /\ raised' = ""
                /\ UNCHANGED <<current_index, source, playbackState, play_icon>>
           ELSE play_at_index((CHOOSE i \in hits : \A k \in hits : i <= k) - 1)
    /\ last' = Op("on_song_clicked", 0)
    /\ UNCHANGED <<current_playlist, song_list, seekUI, flags, engineClock>>

\* Mutant: when not playing, the current track is loaded again even though
\* a source is loaded.
play_pause_AlwaysReloads ==
    /\ IF playbackState = "Playing"
       THEN /\ cmds' = <<Cmd("pause", 0)>>
            /\ msg' = ""
            /\ raised' = ""
            /\ playbackState' = "Paused"
            /\ play_icon' = play_btn_icon("Paused")
            /\ UNCHANGED <<current_index, source>>
       ELSE IF current_playlist # <<>>
            THEN play_at_index(IF current_index >= 0 THEN current_index ELSE 0)
            ELSE /\ cmds' = <<>>
                 /\ msg' = "No track selected."
                 /\ raised' = ""
                 /\ UNCHANGED <<current_index, source, playbackState, play_icon>>
    /\ last' = Op("play_pause", 0)
    /\ UNCHANGED <<current_playlist, song_list, seekUI, flags, engineClock>>

\* play_pause
play_pause ==
    /\ IF playbackState = "Playing"
       THEN /\ cmds' = <<Cmd("pause", 0)>>
            /\ msg' = ""
            /\ raised' = ""
            /\ playbackState' = "Paused"
            /\ play_icon' = play_btn_icon("Paused")
            /\ UNCHANGED <<current_index, source>>
       ELSE IF ~isLocalFile(source)
            THEN IF current_playlist # <<>>
                 THEN play_at_index(IF current_index >= 0 THEN current_index ELSE 0)
                 ELSE /\ cmds' = <<>>
                      /\ msg' = "No track selected."
                      /\ raised' = ""
                      /\ UNCHANGED <<current_index, source, playbackState, play_icon>>
            ELSE /\ cmds' = <<Cmd("play", 0)>>
                 /\ msg' = ""
                 /\ raised' = ""
                 /\ playbackState' = "Playing"
                 /\ play_icon' = play_btn_icon("Playing")
                 /\ UNCHANGED <<current_index, source>>
    /\ last' = Op("play_pause", 0)
    /\ UNCHANGED <<current_playlist, song_list, seekUI, flags, engineClock>>

\* Mutant: stop also forgets the current track.
stop_ClearsIndex ==
    /\ cmds' = <<Cmd("stop", 0)>>
    /\ msg' = ""
    /\ raised' = ""
    /\ playbackState' = "Stopped"
    /\ play_icon' = play_btn_icon("Stopped")
    /\ current_index' = -1
    /\ last' = Op("stop", 0)
    /\ UNCHANGED <<current_playlist, song_list, source, seekUI, flags, engineClock>>

\* stop
stop ==
    /\ cmds' = <<Cmd("stop", 0)>>
    /\ msg' = ""
    /\ raised' = ""
    /\ playbackState' = "Stopped"
    /\ play_icon' = play_btn_icon("Stopped")
    /\ last' = Op("stop", 0)
    /\ UNCHANGED <<current_playlist, song_list, current_index, source, seekUI, flags, engineClock>>

\* prev_track
prev_track ==
    /\ IF current_playlist = <<>>
       THEN /\ cmds' = <<>>
            /\ msg' = ""
            /\ raised' = ""
            /\ UNCHANGED <<current_index, source, playbackState, play_icon>>
       ELSE play_at_index(PrevIndex(current_index, Len(current_playlist), repeat_checked))
    /\ last' = Op("prev_track", 0)
    /\ UNCHANGED <<current_playlist, song_list, seekUI, flags, engineClock>>

\* next_track
next_track ==
    /\ IF current_playlist = <<>>
       THEN /\ cmds' = <<>>
            /\ msg' = ""
            /\ raised' = ""
            /\ UNCHANGED <<current_index, source, playbackState, play_icon>>
       ELSE \E new_idx \in NextIndices(current_index, Len(current_playlist),
                                       shuffle_checked, repeat_checked) :
                play_at_index(new_idx)
    /\ last' = Op("next_track", 0)
    /\ UNCHANGED <<current_playlist, song_list, seekUI, flags, engineClock>>

\* A click on the checkable Shuffle button.
shuffle_btn_click ==
    /\ shuffle_checked' = ~shuffle_checked
    /\ cmds' = <<>>
    /\ msg' = ""
    /\ raised' = ""
    /\ last' = Op("shuffle_btn", 0)
    /\ UNCHANGED <<current_playlist, song_list, current_index, source, playbackState,
                   play_icon, seekUI, repeat_checked, engineClock>>

\* A click on the checkable Repeat button.
repeat_btn_click ==
    /\ repeat_checked' = ~repeat_checked
    /\ cmds' = <<>>
    /\ msg' = ""
    /\ raised' = ""
    /\ last' = Op("repeat_btn", 0)
    /\ UNCHANGED <<current_playlist, song_list, current_index, source, playbackState,
                   play_icon, seekUI, shuffle_checked, engineClock>>

playlistAndPlayer ==
    <<current_playlist, song_list, current_index, source, playbackState, play_icon>>

\* Mutant: on_position_changed without its is_seeking test.
on_position_changed_WhileSeeking(pos) ==
    /\ source # NoSource
    /\ pos # position
    /\ position' = pos
    /\ seek_value' = IF duration > 0 THEN SliderFromPosition(pos, duration)
                     ELSE seek_value
    /\ time_label' = format_ms(pos)
    /\ cmds' = <<>>
    /\ msg' = ""
    /\ raised' = ""
    /\ last' = Op("on_position_changed", 0)
    /\ UNCHANGED <<playlistAndPlayer, is_seeking, duration_label, flags, duration>>

\* The player's position changes to pos and positionChanged(pos) reaches
\* on_position_changed.
on_position_changed(pos) ==
    /\ source # NoSource
    /\ pos # position
    /\ position' = pos
    /\ IF is_seeking
       THEN UNCHANGED <<seek_value, time_label>>
       ELSE /\ seek_value' = IF duration > 0 THEN SliderFromPosition(pos, duration)
                             ELSE seek_value
            /\ time_label' = format_ms(pos)
    /\ cmds' = <<>>
    /\ msg' = ""
    /\ raised' = ""
    /\ last' = Op("on_position_changed", 0)
    /\ UNCHANGED <<playlistAndPlayer, is_seeking, duration_label, flags, duration>>

\* The player's duration changes to dur and durationChanged(dur) reaches
\* on_duration_changed.
on_duration_changed(dur) ==
    /\ source # NoSource
    /\ dur # duration
    /\ duration' = dur
    /\ duration_label' = format_ms(dur)
    /\ cmds' = <<>>
    /\ msg' = ""
    /\ raised' = ""
    /\ last' = Op("on_duration_changed", 0)
    /\ UNCHANGED <<playlistAndPlayer, is_seeking, seek_value, time_label, flags, position>>

\* The player reaches the end of the media: it stops by itself and
\* playbackStateChanged reaches on_playback_state_changed.
on_playback_state_changed ==
    /\ playbackState = "Playing"
    /\ playbackState' = "Stopped"
    /\ play_icon' = play_btn_icon("Stopped")
    /\ cmds' = <<>>
    /\ msg' = ""
    /\ raised' = ""
    /\ last' = Op("on_playback_state_changed", 0)
    /\ UNCHANGED <<current_playlist, song_list, current_index, source, seekUI, flags, engineClock>>

\* Mutant: the value is forwarded without the division by 100.
on_volume_changed_Undivided(value) ==
    /\ cmds' = <<Cmd("setVolume", 100 * value)>>
    /\ msg' = ""
    /\ raised' = ""
    /\ last' = Op("on_volume_changed", value)
    /\ UNCHANGED <<playlistAndPlayer, seekUI, flags, engineClock>>

\* on_volume_changed(value): audio_out.setVolume(value / 100.0).  The gain is
\* recorded in hundredths, so the command's argument is the value itself; the
\* slot neither bounds the value nor keeps it.
on_volume_changed(value) ==
    /\ cmds' = <<Cmd("setVolume", value)>>
    /\ msg' = ""
    /\ raised' = ""
    /\ last' = Op("on_volume_changed", value)
    /\ UNCHANGED <<playlistAndPlayer, seekUI, flags, engineClock>>

\* The test of _detect_track_end_and_advance, which would call next_track
\* when it holds.  No signal, timer or method calls that method, so no
\* action of the model evaluates it.
TrackEnded ==
    /\ duration > 0
    /\ position >= Max(0, duration - 200)
    /\ playbackState = "Playing"

\* _seeker_pressed (sliderPressed: the handle was not held before)
_seeker_pressed ==
    /\ ~is_seeking
    /\ is_seeking' = TRUE
    /\ cmds' = <<>>
    /\ msg' = ""
    /\ raised' = ""
    /\ last' = Op("_seeker_pressed", 0)
    /\ UNCHANGED <<playlistAndPlayer, seek_value, time_label, duration_label,
                   flags, engineClock>>

\* Mutant: every move of the held handle seeks the player at once.
on_seek_slider_moved_Seeks(value) ==
    /\ is_seeking
    /\ seek_value' = value
    /\ time_label' = IF duration > 0 THEN format_ms(MsFromSlider(value, duration))
                     ELSE time_label
    /\ cmds' = IF duration > 0
               THEN <<Cmd("setPosition", MsFromSlider(value, duration))>>
               ELSE <<>>
    /\ msg' = ""
    /\ raised' = ""
    /\ last' = Op("on_seek_slider_moved", 0)
    /\ UNCHANGED <<playlistAndPlayer, is_seeking, duration_label, flags, engineClock>>

\* on_seek_slider_moved(value): sliderMoved is emitted while the handle is
\* held, and the slider (tracking) takes the value before the slot runs.
on_seek_slider_moved(value) ==
    /\ is_seeking
    /\ seek_value' = value
    /\ time_label' = IF duration > 0 THEN format_ms(MsFromSlider(value, duration))
                     ELSE time_label
    /\ cmds' = <<>>
    /\ msg' = ""
    /\ raised' = ""
    /\ last' = Op("on_seek_slider_moved", 0)
    /\ UNCHANGED <<playlistAndPlayer, is_seeking, duration_label, flags, engineClock>>

\* Mutant: with the duration unknown the slot returns before it clears
\* is_seeking.
_seeker_released_EarlyReturn ==
    /\ is_seeking
    /\ cmds' = IF duration > 0
               THEN <<Cmd("setPosition", MsFromSlider(seek_value, duration))>>
               ELSE <<>>
    /\ is_seeking' = (duration <= 0)
    /\ msg' = ""
    /\ raised' = ""
    /\ last' = Op("_seeker_released", 0)
    /\ UNCHANGED <<playlistAndPlayer, seek_value, time_label, duration_label,
                   flags, engineClock>>

\* Mutant: a release with the duration unknown seeks to the start.
_seeker_released_SeeksAlways ==
    /\ is_seeking
    /\ cmds' = IF duration > 0
               THEN <<Cmd("setPosition", MsFromSlider(seek_value, duration))>>
               ELSE <<Cmd("setPosition", 0)>>
    /\ is_seeking' = FALSE
    /\ msg' = ""
    /\ raised' = ""
    /\ last' = Op("_seeker_released", 0)
    /\ UNCHANGED <<playlistAndPlayer, seek_value, time_label, duration_label,
                   flags, engineClock>>

\* _seeker_released
_seeker_released ==
    /\ is_seeking
    /\ cmds' = IF duration > 0
               THEN <<Cmd("setPosition", MsFromSlider(seek_value, duration))>>
               ELSE <<>>
    /\ is_seeking' = FALSE
    /\ msg' = ""
    /\ raised' = ""
    /\ last' = Op("_seeker_released", 0)
    /\ UNCHANGED <<playlistAndPlayer, seek_value, time_label, duration_label,
                   flags, engineClock>>

\* Mutant: the tick refreshes the slider and the labels during a drag too.
_periodic_update_WhileSeeking ==
    /\ seek_value' = IF duration > 0 THEN SliderFromPosition(position, duration)
                     ELSE seek_value
    /\ time_label' = format_ms(position)
    /\ duration_label' = format_ms(duration)
    /\ cmds' = <<>>
    /\ msg' = ""
    /\ raised' = ""
    /\ last' = Op("_periodic_update", 0)
    /\ UNCHANGED <<playlistAndPlayer, is_seeking, flags, engineClock>>

\* _periodic_update (ui_timer, every 500 ms)
_periodic_update ==
    /\ IF is_seeking
       THEN UNCHANGED <<seek_value, time_label, duration_label>>
       ELSE /\ seek_value' = IF duration > 0 THEN SliderFromPosition(position, duration)
                             ELSE seek_value
            /\ time_label' = format_ms(position)
            /\ duration_label' = format_ms(duration)
    /\ cmds' = <<>>
    /\ msg' = ""
    /\ raised' = ""
    /\ last' = Op("_periodic_update", 0)
    /\ UNCHANGED <<playlistAndPlayer, is_seeking, flags, engineClock>>

Next ==
    \/ \E files \in Directories : load_directory(files)
    \/ \E idx \in Indices : PlayAtIndex(idx)
    \/ \E row \in Tracks : on_song_clicked(row)
    \/ play_pause
    \/ stop
    \/ prev_track
    \/ next_track
    \/ shuffle_btn_click
    \/ repeat_btn_click
    \/ \E pos \in Positions : on_position_changed(pos)
    \/ \E dur \in Durations : on_duration_changed(dur)
    \/ on_playback_state_changed
    \/ \E value \in VolumeValues : on_volume_changed(value)
    \/ _seeker_pressed
    \/ \E value \in DragValues : on_seek_slider_moved(value)
    \/ _seeker_released
    \/ _periodic_update

Spec == Init /\ [][Next]_vars

\* ------------------------------------------------------------------ claims
n == Len(current_playlist)

\* C1: in every reachable state current_index is valid for the playlist: it
\* lies in [-1, len-1], is -1 when the playlist is empty and is in
\* [0, len-1] when it is not.
C1_IndexValid ==
    /\ current_index \in (-1)..(n - 1)
    /\ (n = 0 => current_index = -1)
    /\ (n > 0 => current_index \in 0..(n - 1))

\* A shorter listing has just replaced a playlist whose last track was
\* current, and the index was reset into the new playlist.
C1_Witness ==
    /\ last.op = "load_directory"
    /\ last.from = NumTracks - 1
    /\ n = 1
    /\ current_index = 0

\* The nearest integer to value * dur / 1000 (ties up).
RoundNearest(value, dur) == (2 * value * dur + 1000) \div 2000

\* A step that releases the seek handle while the duration is known.
ReleaseWithDuration == is_seeking /\ ~is_seeking' /\ duration > 0

\* While the handle is held only a drag-move changes the slider's value, so
\* on release it is the fraction the drag moved to.
DragOwnsSlider ==
    (is_seeking /\ is_seeking' /\ seek_value' # seek_value)
        => (last'.op = "on_seek_slider_moved" /\ seek_value' \in DragValues)

\* No seek is issued while the handle is (still) held.
NoSeekWhileHeld ==
    is_seeking' => \A i \in 1..Len(cmds') : cmds'[i].c # "setPosition"

\* C2 as stated: a drag released at fraction f = seek_value / 1000 with known
\* duration D issues exactly one seek, to round(f * D).
C2_SeekTargetRounded ==
    [][/\ DragOwnsSlider
       /\ NoSeekWhileHeld
       /\ ReleaseWithDuration =>
            cmds' = <<Cmd("setPosition", RoundNearest(seek_value, duration))>>]_vars

\* C2 amended: the release issues exactly one seek, to f * D truncated: the
\* target t is the whole part of f * D, or one less when f * D is itself a
\* whole number (the double product may fall just below it); never more.
C2_SeekTargetTruncated ==
    [][/\ DragOwnsSlider
       /\ NoSeekWhileHeld
       /\ ReleaseWithDuration =>
            /\ Len(cmds') = 1
            /\ cmds'[1].c = "setPosition"
            /\ LET t == cmds'[1].a
                   exact == seek_value * duration
               IN  /\ 1000 * t <= exact
                   /\ IF exact % 1000 = 0
                      THEN exact <= 1000 * (t + 1)
                      ELSE exact < 1000 * (t + 1)]_vars

\* A drag to 290/1000 was released on a 1500 ms track: one seek, to 434 ms.
C2_Witness ==
    /\ last.op = "_seeker_released"
    /\ seek_value = 290
    /\ duration = 1500
    /\ cmds = <<Cmd("setPosition", 434)>>

\* C3: while the handle is held, no position or duration notification
\* changes the time label or the slider value.
C3_DragShieldsPosition ==
    [][(is_seeking /\ last'.op \in {"on_position_changed", "on_duration_changed"})
          => (time_label' = time_label /\ seek_value' = seek_value)]_vars

\* A position notification arrived during a drag and was not shown: the
\* engine is at 2000 ms while the label still shows the dragged time.
C3_Witness ==
    /\ last.op = "on_position_changed"
    /\ is_seeking
    /\ position = 2000
    /\ duration = 1500
    /\ time_label = format_ms(0)
    /\ seek_value = 1

\* A direct play_at_index call whose index is outside [0, len-1].
RejectedCall == last'.op = "play_at_index" /\ last'.arg \notin 0..(n - 1)

C5_EmptyAlwaysReports ==
    [][(last'.op = "play_pause" /\ current_playlist = <<>>) =>
         /\ msg' = "No track selected."
         /\ cmds' = <<>>
         /\ playbackState' = playbackState]_vars

\* C5 amended: the same when the engine holds no track (so is not playing);
\* when it still holds one, play_pause pauses it if it is playing and
\* otherwise resumes it, and reports nothing.
C5_EmptyAndUnloadedReports ==
    [][(last'.op = "play_pause" /\ current_playlist = <<>>) =>
         IF source = NoSource
         THEN /\ msg' = "No track selected."
              /\ cmds' = <<>>
              /\ playbackState' = playbackState
              /\ playbackState' = "Stopped"
         ELSE /\ msg' = ""
              /\ cmds' = IF playbackState = "Playing" THEN <<Cmd("pause", 0)>>
                         ELSE <<Cmd("play", 0)>>
              /\ source' = source]_vars

\* play_pause ran with an empty playlist and a player that holds no track.
C5_Witness ==
    /\ last.op = "play_pause"
    /\ current_playlist = <<>>
    /\ source = NoSource
    /\ msg = "No track selected."
    /\ cmds = <<>>

\* The slot that ran last is Next / Previous on a non-empty playlist.  Neither
\* slot changes the playlist or the buttons, so n, shuffle_checked and
\* repeat_checked are what the slot read, and last.from is the index it read.
AfterNext == last.op = "next_track" /\ n > 0
AfterPrev == last.op = "prev_track" /\ n > 0

\* C6: without shuffle and repeat the index Next / Previous resolves to is in
\* [0, len-1]; Next at len-1 stays at len-1 and Previous at 0 stays at 0.
C6_ClampWithoutRepeat ==
    ((AfterNext \/ AfterPrev) /\ ~shuffle_checked /\ ~repeat_checked) =>
        /\ current_index \in 0..(n - 1)
        /\ (AfterNext /\ last.from = n - 1) => current_index = n - 1
        /\ (AfterPrev /\ last.from = 0) => current_index = 0

\* Next ran at the last of three tracks without repeat and stayed there.
C6_Witness ==
    /\ AfterNext
    /\ ~shuffle_checked /\ ~repeat_checked
    /\ n = 3
    /\ last.from = 2
    /\ current_index = 2

\* C7: with repeat and without shuffle, Next at len-1 resolves to 0 and
\* Previous at 0 to len-1; elsewhere they resolve to index+1 and index-1.
C7_WrapWithRepeat ==
    (repeat_checked /\ ~shuffle_checked) =>
        /\ AfterNext =>
             current_index = IF last.from = n - 1 THEN 0 ELSE last.from + 1
        /\ AfterPrev =>
             current_index = IF last.from = 0 THEN n - 1 ELSE last.from - 1

\* Previous ran at the first of three tracks with repeat and wrapped to the last.
C7_Witness ==
    /\ AfterPrev
    /\ repeat_checked /\ ~shuffle_checked
    /\ n = 3
    /\ last.from = 0
    /\ current_index = 2

\* C8: with shuffle, the indices Next can resolve to are exactly 0..len-1,
\* the current one included, for every len > 0 and either repeat setting;
\* and the index Next did resolve to is one of them.
C8_ShuffleRange ==
    (shuffle_checked /\ n > 0) =>
        /\ {i \in Indices : ENABLED (next_track /\ current_index' = i)} = 0..(n - 1)
        /\ AfterNext => current_index \in 0..(n - 1)

\* Next ran under shuffle and repeat and picked the track that was current.
C8_Witness ==
    /\ AfterNext
    /\ shuffle_checked /\ repeat_checked
    /\ n = 3
    /\ last.from = 1
    /\ current_index = 1

\* C9: Previous resolves by the ordinal rule whether or not shuffle is
\* checked: index-1, or at index 0: len-1 under repeat, else 0.
C9_PrevIgnoresShuffle ==
    AfterPrev =>
        current_index = IF last.from > 0 THEN last.from - 1
                        ELSE IF repeat_checked THEN n - 1 ELSE 0

\* Previous ran under shuffle from the last of three tracks and went one back.
C9_Witness ==
    /\ AfterPrev
    /\ shuffle_checked
    /\ n = 3
    /\ last.from = 2
    /\ current_index = 1

\* The index rule 4.2 of the spec resolves to, as the set of its results.
Resolved(len, cur, forward, shuffle, repeat) ==
    LET raw == IF forward THEN cur + 1 ELSE cur - 1
    IN  IF forward /\ shuffle THEN 0..(len - 1)
        ELSE IF raw < 0 THEN {IF repeat THEN len - 1 ELSE 0}
        ELSE IF raw >= len THEN {IF repeat THEN 0 ELSE len - 1}
        ELSE {raw}

\* C10: Next / Previous on an empty playlist do nothing; on a non-empty one
\* they set current_index to the resolved index and issue one setSource of
\* that track, then play.  On <<1, 2, 3>> at index 2 without shuffle, Next
\* without repeat stays at 2 and reloads track 3, and with repeat goes to 0
\* and loads track 1.
C10_Advance ==
    (last.op \in {"next_track", "prev_track"}) =>
        /\ n = 0 => (current_index = -1 /\ last.from = -1 /\ cmds = <<>>)
        /\ n > 0 =>
            /\ current_index \in Resolved(n, last.from, last.op = "next_track",
                                          shuffle_checked, repeat_checked)
            /\ cmds = <<Cmd("setSource", current_playlist[current_index + 1]),
                        Cmd("play", 0)>>
            /\ source = current_playlist[current_index + 1]
        /\ (/\ last.op = "next_track"
            /\ current_playlist = <<1, 2, 3>>
            /\ last.from = 2
            /\ ~shuffle_checked) =>
              IF repeat_checked
              THEN current_index = 0
                   /\ cmds = <<Cmd("setSource", 1), Cmd("play", 0)>>
              ELSE current_index = 2
                   /\ cmds = <<Cmd("setSource", 3), Cmd("play", 0)>>

\* Next ran at the last track of <<1, 2, 3>> with repeat: track 1 is loaded
\* and played.
C10_Witness ==
    /\ last.op = "next_track"
    /\ current_playlist = <<1, 2, 3>>
    /\ last.from = 2
    /\ repeat_checked /\ ~shuffle_checked
    /\ current_index = 0
    /\ cmds = <<Cmd("setSource", 1), Cmd("play", 0)>>

\* C11 as stated: when a track completes (the position is within the last
\* 200 ms of a positive duration while playing), the position notification
\* or timer tick that shows it advances to the next track: it loads a track
\* of the playlist and plays it.
C11_CompletionAdvances ==
    (/\ last.op \in {"on_position_changed", "_periodic_update"}
     /\ TrackEnded
     /\ n > 0) =>
        \E i \in 1..n :
            cmds = <<Cmd("setSource", current_playlist[i]), Cmd("play", 0)>>

\* C12: load_directory replaces the playlist by the directory's listing
\* whatever the playlist was, sets current_index to 0 for a non-empty listing
\* and to -1 for an empty one, and does not start playback: it issues no
\* command to the player, and the player's source and playback state are
\* what they were.
C12_LoadDoesNotPlay ==
    [][last'.op = "load_directory" =>
        /\ current_playlist' \in Directories
        /\ current_index' = IF current_playlist' = <<>> THEN -1 ELSE 0
        /\ cmds' = <<>>
        /\ source' = source
        /\ playbackState' = playbackState]_vars

\* While track 1 of <<1, 2, 3>> was playing, the listing <<3>> was loaded:
\* the playlist is <<3>>, the index 0, and track 1 still plays.
C12_Witness ==
    /\ last.op = "load_directory"
    /\ current_playlist = <<3>>
    /\ current_index = 0
    /\ last.from = 0
    /\ source = 1
    /\ playbackState = "Playing"
    /\ cmds = <<>>

\* C13 as stated: is_seeking is false after every release of the slider and
\* after every stop, so a stop during a drag ends the drag.
C13_StopEndsDrag ==
    (last.op \in {"_seeker_released", "stop"}) => ~is_seeking

\* C13: is_seeking is false after every release of the slider; stop leaves
\* it as it was, does not touch the slider or the time label, and only
\* commands the player to stop, so a drag that a stop interrupts goes on
\* until the slider is released.
C13_OnlyReleaseEndsDrag ==
    [][/\ last'.op = "_seeker_released" => ~is_seeking'
       /\ last'.op = "stop" =>
            /\ is_seeking' = is_seeking
            /\ seek_value' = seek_value
            /\ time_label' = time_label
            /\ cmds' = <<Cmd("stop", 0)>>]_vars

\* stop ran while the slider was held at 290 on a 1500 ms track: the drag
\* is still on.
C13_Witness ==
    /\ last.op = "stop"
    /\ is_seeking
    /\ seek_value = 290
    /\ duration = 1500
    /\ playbackState = "Stopped"

\* C14: play_pause while playing issues pause only.  While not playing, with
\* a source loaded it issues play only: nothing is loaded and current_index
\* stays; with no source loaded and a non-empty playlist it does what
\* play_at_index(max(current_index, 0)) does: that index becomes current and
\* its track is loaded and played.
C14_TogglePlayPause ==
    [][last'.op = "play_pause" =>
        IF playbackState = "Playing"
        THEN /\ cmds' = <<Cmd("pause", 0)>>
             /\ current_index' = current_index
             /\ source' = source
        ELSE IF source # NoSource
             THEN /\ cmds' = <<Cmd("play", 0)>>
                  /\ current_index' = current_index
                  /\ source' = source
                  /\ playbackState' = "Playing"
             ELSE current_playlist # <<>> =>
                    LET i == Max(current_index, 0)
                    IN  /\ i < Len(current_playlist)
                        /\ current_index' = i
                        /\ source' = current_playlist[i + 1]
                        /\ cmds' = <<Cmd("setSource", current_playlist[i + 1]),
                                     Cmd("play", 0)>>
                        /\ playbackState' = "Playing"]_vars

\* Track 1 was loaded and not playing when the listing <<3>> replaced the
\* playlist; play_pause then issued play only, and track 1 plays on.
C14_Witness ==
    /\ last.op = "play_pause"
    /\ current_playlist = <<3>>
    /\ current_index = 0
    /\ source = 1
    /\ cmds = <<Cmd("play", 0)>>
    /\ playbackState = "Playing"

C16_StopFrame ==
    [][last'.op = "stop" =>
        /\ cmds' = <<Cmd("stop", 0)>>
        /\ current_playlist' = current_playlist
        /\ current_index' = current_index
        /\ playbackState' = "Stopped"]_vars

\* stop ran while track 3 of <<1, 2, 3>> was loaded: the playlist and the
\* index 2 are kept.
C16_Witness ==
    /\ last.op = "stop"
    /\ cmds = <<Cmd("stop", 0)>>
    /\ current_playlist = <<1, 2, 3>>
    /\ current_index = 2
    /\ last.from = 2
    /\ source = 3
    /\ playbackState = "Stopped"

\* C17: a tick of ui_timer during a drag changes neither the time label nor
\* the duration label nor the slider value.  A tick outside a drag sets the
\* time label to the player's position and the duration label to the
\* player's duration, and with a known duration the slider to the position's
\* thousandths of the duration (truncated, at most one short of the exact
\* quotient, and within the slider's range).
C17_TickRespectsDrag ==
    [][last'.op = "_periodic_update" =>
        /\ cmds' = <<>>
        /\ is_seeking' = is_seeking
        /\ IF is_seeking
           THEN /\ time_label' = time_label
                /\ duration_label' = duration_label
                /\ seek_value' = seek_value
           ELSE /\ time_label' = format_ms(position)
                /\ duration_label' = format_ms(duration)
                /\ IF duration > 0
                   THEN LET q == (SeekMax * position) \div duration
                        IN  seek_value' \in {Min(SeekMax, q),
                                             Min(SeekMax, Max(SeekMin, q - 1))}
                   ELSE seek_value' = seek_value]_vars

\* A tick came while the slider was held at 290 and the player was at
\* 1400 ms of 1500 ms: the slider and the time shown are still the drag's.
C17_Witness ==
    /\ last.op = "_periodic_update"
    /\ is_seeking
    /\ position = 1400
    /\ duration = 1500
    /\ seek_value = 290
    /\ time_label = format_ms(434)

\* C18: a release of the slider while the duration is unknown (zero or
\* negative) sends no command to the player, raises nothing, reports
\* nothing, and ends the drag.
C18_ReleaseWithoutDuration ==
    (last.op = "_seeker_released" /\ duration <= 0) =>
        /\ cmds = <<>>
        /\ raised = ""
        /\ msg = ""
        /\ ~is_seeking

\* The slider was dragged to 290 and released while the player reported the
\* duration -1: no seek, and the drag is over.
C18_Witness ==
    /\ last.op = "_seeker_released"
    /\ duration = -1
    /\ seek_value = 290
    /\ source # NoSource
    /\ cmds = <<>>
    /\ ~is_seeking

\* A position notification or a timer tick has refreshed the display
\* outside a drag, the player being past a known positive duration.
ShownPastTheEnd ==
    /\ last.op \in {"on_position_changed", "_periodic_update"}
    /\ ~is_seeking
    /\ duration > 0
    /\ position > duration

\* C19 as stated: outside a drag, when the player reports a position past
\* the known positive duration, the time shown and the slider value are both
\* those of the duration.
C19_DisplayClamped ==
    ShownPastTheEnd =>
        /\ seek_value = SeekMax
        /\ time_label = format_ms(duration)

\* C19: outside a drag, when the player reports a position past the known
\* positive duration, the slider value is its maximum, the slider's range
\* bounding it, and the time shown is the position reported, not bounded by
\* the duration.
C19_OnlySliderClamped ==
    ShownPastTheEnd =>
        /\ seek_value = SeekMax
        /\ time_label = format_ms(position)

\* The player reported 2000 ms on a 1500 ms track: the slider is at 1000,
\* the time shown is 00:02 and the duration shown 00:01.
C19_Witness ==
    /\ last.op = "on_position_changed"
    /\ ~is_seeking
    /\ position = 2000
    /\ duration = 1500
    /\ seek_value = 1000
    /\ time_label = [m |-> 0, s |-> 2]
    /\ duration_label = [m |-> 0, s |-> 1]

\* C20: a setPosition command reaches the player only from a release of the
\* slider, and a release sends at most one: no other slot seeks, so the
\* seeks never outnumber the releases.
C20_SeekOnlyOnRelease ==
    /\ (\E i \in 1..Len(cmds) : cmds[i].c = "setPosition") =>
            last.op = "_seeker_released"
    /\ last.op = "_seeker_released" =>
            /\ Len(cmds) <= 1
            /\ \A i \in 1..Len(cmds) : cmds[i].c = "setPosition"

\* The slider was released at 1 on a 1500 ms track: one seek, to 1 ms.
C20_Witness ==
    /\ last.op = "_seeker_released"
    /\ duration = 1500
    /\ seek_value = 1
    /\ cmds = <<Cmd("setPosition", 1)>>

\* The player's source is the playlist's entry at current_index.
SourceIsCurrent ==
    /\ source # NoSource
    /\ current_index \in 0..(n - 1)
    /\ source = current_playlist[current_index + 1]

\* C21: the player's source changes only by play_at_index: a step that
\* changes it, or that issues setSource, leaves it equal to the playlist's
\* entry at current_index; once equal it stays equal through every step but
\* load_directory; load_directory leaves the source loaded as it was, and a
\* play_pause with a source loaded only plays or pauses that source.
C21_SourceChangesOnlyInPlayAtIndex ==
    [][/\ (source' # source \/ \E i \in 1..Len(cmds') : cmds'[i].c = "setSource") =>
            /\ last'.op \in {"play_at_index", "on_song_clicked", "play_pause",
                             "next_track", "prev_track"}
            /\ SourceIsCurrent'
            /\ cmds' = <<Cmd("setSource", source'), Cmd("play", 0)>>
       /\ (SourceIsCurrent /\ last'.op # "load_directory") => SourceIsCurrent'
       /\ last'.op = "load_directory" => source' = source
       /\ (last'.op = "play_pause" /\ source # NoSource) =>
            /\ source' = source
            /\ cmds' \in {<<Cmd("play", 0)>>, <<Cmd("pause", 0)>>}]_vars

\* Track 1 of <<1, 2, 3>> was loaded when the listing <<2, 3>> replaced the
\* playlist; play_pause then paused track 1, and track 2, the new current
\* entry, was not loaded.
C21_Witness ==
    /\ last.op = "play_pause"
    /\ current_playlist = <<2, 3>>
    /\ current_index = 0
    /\ source = 1
    /\ cmds = <<Cmd("pause", 0)>>
    /\ playbackState = "Paused"
====
